---- MODULE Spec2Model ----
(***************************************************************************)
(* Calamares module factory: Module::fromDescriptor, Module::initFrom,     *)
(* Module::loadConfigurationFile and Module::instanceKey of                *)
(* src/libcalamaresui/modulesystem/Module.cpp.                             *)
(*                                                                         *)
(* A QString is a sequence of text chunks.  A chunk is one character, or   *)
(* opaque literal text that the code only copies and compares whole.  The  *)
(* characters QString::arg looks at ("%", "L", the digits) are always      *)
(* chunks of their own; a string QVariant::toBool converts is spelled      *)
(* character by character; in a directory name the separator "/" and the   *)
(* components "." and ".." are chunks of their own.                        *)
(***************************************************************************)
EXTENDS Integers, Sequences, FiniteSets, TLC

VARIABLES
    \* inputs of fromDescriptor and the environment it reads
    moduleDescriptor,      \* QVariantMap: a function on the keys present
    instanceId,            \* QString
    configFileName,        \* QString
    moduleDirectory,       \* [path : QString, ok : exists and is readable]
    overridden,            \* CalamaresUtils::isAppDataDirOverridden()
    debugMode,             \* Settings::instance()->debugMode()
    withPython,            \* WITH_PYTHON is defined in this build
    withPythonQt,          \* WITH_PYTHONQT is defined in this build
    fs,                    \* the files on disk: path -> file
    \* the Module under construction
    m,                     \* std::unique_ptr<Module>: "null" or the variant
    m_name,
    m_instanceId,
    m_directory,
    m_configurationMap,
    m_emergency,
    m_maybe_emergency,
    m_loaded,
    \* control and observation
    pc,                    \* position inside fromDescriptor
    returned,              \* "pending", "nullptr" or "instance"
    configFilesByPriority, \* the candidate list built by loadConfigurationFile
    consulted,             \* paths whose QFile was tested, in order
    opened,                \* paths whose QFile was opened and read, in order
    log,                   \* set of <<severity, message>> written to the logger
    cfgWrites,             \* number of assignments to m_configurationMap
    emWrites,              \* number of assignments to m_emergency
    key                    \* last value returned by instanceKey(), or NoKey

vars == << moduleDescriptor, instanceId, configFileName, moduleDirectory,
           overridden, debugMode, withPython, withPythonQt, fs,
           m, m_name, m_instanceId, m_directory, m_configurationMap,
           m_emergency, m_maybe_emergency, m_loaded,
           pc, returned, configFilesByPriority, consulted, opened, log,
           cfgWrites, emWrites, key >>

inputs == << moduleDescriptor, instanceId, configFileName, moduleDirectory,
             overridden, debugMode, withPython, withPythonQt, fs >>

----------------------------------------------------------------------------
(* Bounds of the explored inputs *)

MaxNameLen == 2

MaxIdLen == 2

----------------------------------------------------------------------------
(* QString::arg *)

DigitValue(c) ==
    CASE c = "0" -> 0 [] c = "1" -> 1 [] c = "2" -> 2 [] c = "3" -> 3
      [] c = "4" -> 4 [] c = "5" -> 5 [] c = "6" -> 6 [] c = "7" -> 7
      [] c = "8" -> 8 [] c = "9" -> 9 [] OTHER -> -1

\* INT_MAX stand-in: larger than any two-digit place marker
NoEscape == 100

\* The place marker starting at the "%" at position i of s: its number (-1 if
\* the "%" starts no marker) and the position of its last character.
EscapeAt(s, i) ==
    LET j == IF i + 1 <= Len(s) /\ s[i + 1] = "L" THEN i + 2 ELSE i + 1
        d == IF j <= Len(s) THEN DigitValue(s[j]) ELSE -1
        d2 == IF d # -1 /\ j + 1 <= Len(s) THEN DigitValue(s[j + 1]) ELSE -1
    IN  IF d = -1 THEN [num |-> -1, last |-> i]
        ELSE IF d2 # -1 THEN [num |-> 10 * d + d2, last |-> j + 1]
        ELSE [num |-> d, last |-> j]

RECURSIVE MinEscape(_, _)
\* findArgEscapes: the lowest marker number in s from position i on
MinEscape(s, i) ==
    IF i > Len(s) THEN NoEscape
    ELSE IF s[i] # "%" THEN MinEscape(s, i + 1)
    ELSE LET e == EscapeAt(s, i)
             rest == MinEscape(s, e.last + 1)
         IN  IF e.num = -1 THEN rest
             ELSE IF e.num < rest THEN e.num ELSE rest

RECURSIVE ReplaceEscapes(_, _, _, _)
\* replaceArgEscapes: every marker numbered n replaced by a, the rest copied
ReplaceEscapes(s, i, n, a) ==
    IF i > Len(s) THEN << >>
    ELSE IF s[i] # "%" THEN << s[i] >> \o ReplaceEscapes(s, i + 1, n, a)
    ELSE LET e == EscapeAt(s, i)
         IN  IF e.num = -1
             THEN << s[i] >> \o ReplaceEscapes(s, i + 1, n, a)
             ELSE IF e.num = n
             THEN a \o ReplaceEscapes(s, e.last + 1, n, a)
             ELSE SubSeq(s, i, e.last) \o ReplaceEscapes(s, e.last + 1, n, a)

\* QString::arg(const QString&): replaces the lowest-numbered place marker;
\* a string without markers is returned unchanged
Arg(s, a) ==
    LET n == MinEscape(s, 1)
    IN  IF n = NoEscape THEN s ELSE ReplaceEscapes(s, 1, n, a)

----------------------------------------------------------------------------
(* QVariant, QVariantMap and YAML documents *)

EMERGENCY == "emergency"

EmptyMap == [k \in {} |-> FALSE]

VInvalid == [t |-> "invalid", b |-> FALSE, s |-> << >>, i |-> 0]

VBool(b) == [t |-> "bool", b |-> b, s |-> << >>, i |-> 0]

VString(s) == [t |-> "string", b |-> FALSE, s |-> s, i |-> 0]

VInt(i) == [t |-> "int", b |-> FALSE, s |-> << >>, i |-> i]

\* QChar::toLower of a one-character chunk
toLower(c) ==
    CASE c = "A" -> "a" [] c = "B" -> "b" [] c = "C" -> "c" [] c = "D" -> "d"
      [] c = "E" -> "e" [] c = "F" -> "f" [] c = "G" -> "g" [] c = "H" -> "h"
      [] c = "I" -> "i" [] c = "J" -> "j" [] c = "K" -> "k" [] c = "L" -> "l"
      [] c = "M" -> "m" [] c = "N" -> "n" [] c = "O" -> "o" [] c = "P" -> "p"
      [] c = "Q" -> "q" [] c = "R" -> "r" [] c = "S" -> "s" [] c = "T" -> "t"
      [] c = "U" -> "u" [] c = "V" -> "v" [] c = "W" -> "w" [] c = "X" -> "x"
      [] c = "Y" -> "y" [] c = "Z" -> "z" [] OTHER -> c

\* QString::toLower
Lowered(s) == [k \in 1..Len(s) |-> toLower(s[k])]

\* QVariant::toBool: a string is false when, lower-cased, it is "0" or
\* "false", or when it is empty; a number is false when it is 0
toBool(v) ==
    CASE v.t = "bool" -> v.b
      [] v.t = "string" ->
             /\ v.s # << >>
             /\ Lowered(v.s) # << "0" >>
             /\ Lowered(v.s) # << "f", "a", "l", "s", "e" >>
      [] v.t = "int" -> v.i # 0
      [] OTHER -> FALSE

DigitChar(d) ==
    CASE d = 0 -> "0" [] d = 1 -> "1" [] d = 2 -> "2" [] d = 3 -> "3"
      [] d = 4 -> "4" [] d = 5 -> "5" [] d = 6 -> "6" [] d = 7 -> "7"
      [] d = 8 -> "8" [] OTHER -> "9"

RECURSIVE Decimal(_)
\* QString::number of a non-negative int
Decimal(n) ==
    IF n < 10 THEN << DigitChar(n) >>
    ELSE Append(Decimal(n \div 10), DigitChar(n % 10))

\* QVariant::toString
toString(v) ==
    CASE v.t = "string" -> v.s
      [] v.t = "bool" -> IF v.b THEN << "true" >> ELSE << "false" >>
      [] v.t = "int" -> IF v.i < 0 THEN << "-" >> \o Decimal(-v.i)
                        ELSE Decimal(v.i)
      [] OTHER -> << >>

\* QVariantMap::value( key ): a default-constructed QVariant for a missing key
Value(map, k) == IF k \in DOMAIN map THEN map[k] ELSE VInvalid

Contains(map, k) == k \in DOMAIN map

\* What YAML::Load makes of a file's text: a node, or no node at all
\* ("Invalid": the parser throws YAML::Exception)
Node(type, map) == [type |-> type, map |-> map]

NodeTypes == { "Invalid", "Null", "Scalar", "Sequence", "Map" }

\* CalamaresUtils::yamlMapToVariant( doc ).toMap() of a Map node
yamlMapToVariant(doc) == doc.map

----------------------------------------------------------------------------
(* Files *)

Missing == [exists |-> FALSE, openable |-> FALSE, doc |-> Node("Null", EmptyMap)]

Unreadable == [exists |-> TRUE, openable |-> FALSE, doc |-> Node("Null", EmptyMap)]

Readable(doc) == [exists |-> TRUE, openable |-> TRUE, doc |-> doc]

FileAt(path) == IF path \in DOMAIN fs THEN fs[path] ELSE Missing

\* configFile.exists() && configFile.open( QFile::ReadOnly | QFile::Text )
Usable(file) == file.exists /\ file.openable

\* CalamaresUtils::appDataDir()
appDataDir(ovr) == IF ovr THEN << "<overrideRoot>" >> ELSE << "<appDataRoot>" >>

\* QDir::currentPath()
currentPath == << "/", "cwd" >>

RECURSIVE SplitPath(_, _, _)
\* The components of path from chunk i on, cur being the one in progress
SplitPath(path, i, cur) ==
    IF i > Len(path) THEN << cur >>
    ELSE IF path[i] = "/" THEN << cur >> \o SplitPath(path, i + 1, << >>)
    ELSE SplitPath(path, i + 1, Append(cur, path[i]))

RECURSIVE CleanSegments(_, _, _)
\* QDir::cleanPath on components: empty ones and "." go, ".." takes the
\* component before it away, and stays when there is none to take
CleanSegments(segs, i, kept) ==
    IF i > Len(segs) THEN kept
    ELSE IF segs[i] = << >> \/ segs[i] = << "." >>
    THEN CleanSegments(segs, i + 1, kept)
    ELSE IF segs[i] = << ".." >> /\ kept # << >> /\ kept[Len(kept)] # << ".." >>
    THEN CleanSegments(segs, i + 1, SubSeq(kept, 1, Len(kept) - 1))
    ELSE CleanSegments(segs, i + 1, Append(kept, segs[i]))

RECURSIVE JoinPath(_, _)
JoinPath(segs, i) ==
    IF i > Len(segs) THEN << >>
    ELSE << "/" >> \o segs[i] \o JoinPath(segs, i + 1)

\* QDir( path ).absolutePath(): made absolute against the current
\* directory, without ".", ".." or redundant or trailing separators
absolutePath(path) ==
    LET abs == IF path # << >> /\ path[1] = "/" THEN path
               ELSE currentPath \o << "/" >> \o path
        segs == CleanSegments(SplitPath(abs, 1, << >>), 1, << >>)
    IN  IF segs = << >> THEN << "/" >> ELSE JoinPath(segs, 1)

\* QDir::absoluteFilePath of a relative file name
absoluteFilePath(dir, fileName) == dir \o << "/" >> \o fileName

----------------------------------------------------------------------------
(* Module::fromDescriptor, variant selection *)

SelectVariantIgnoringCase(typeString, intfString, py, pyqt) ==
    LET lower(x) == CASE x = << "View" >> -> << "view" >>
                      [] x = << "JOB" >> -> << "job" >>
                      [] x = << "Process" >> -> << "process" >>
                      [] OTHER -> x
        t == lower(typeString)
        i == lower(intfString)
    IN  IF t = << "view" >> \/ t = << "viewmodule" >>
        THEN IF i = << "qtplugin" >> THEN "ViewModule"
             ELSE IF i = << "pythonqt" >> /\ pyqt THEN "PythonQtViewModule"
             ELSE "null"
        ELSE IF t = << "job" >>
        THEN IF i = << "qtplugin" >> THEN "CppJobModule"
             ELSE IF i = << "process" >> THEN "ProcessJobModule"
             ELSE IF i = << "python" >> /\ py THEN "PythonJobModule"
             ELSE "null"
        ELSE "null"

\* The variant m is reset to, "null" when no branch allocates one
SelectVariant(typeString, intfString, py, pyqt) ==
    IF typeString = << "view" >> \/ typeString = << "viewmodule" >>
    THEN IF intfString = << "qtplugin" >> THEN "ViewModule"
         ELSE IF intfString = << "pythonqt" >>
         THEN IF pyqt THEN "PythonQtViewModule" ELSE "null"
         ELSE "null"
    ELSE IF typeString = << "job" >>
    THEN IF intfString = << "qtplugin" >> THEN "CppJobModule"
         ELSE IF intfString = << "process" >> THEN "ProcessJobModule"
         ELSE IF intfString = << "python" >>
         THEN IF py THEN "PythonJobModule" ELSE "null"
         ELSE "null"
    ELSE "null"

\* The cError() lines of the selection
SelectionErrors(typeString, intfString, py, pyqt) ==
    IF typeString = << "view" >> \/ typeString = << "viewmodule" >>
    THEN IF intfString = << "qtplugin" >> THEN {}
         ELSE IF intfString = << "pythonqt" >>
         THEN IF pyqt THEN {}
              ELSE { << "error", "PythonQt view modules are not supported" >> }
         ELSE { << "error", "Bad interface" >> }
    ELSE IF typeString = << "job" >>
    THEN IF intfString \in { << "qtplugin" >>, << "process" >> } THEN {}
         ELSE IF intfString = << "python" >>
         THEN IF py THEN {}
              ELSE { << "error", "Python modules are not supported" >> }
         ELSE { << "error", "Bad interface" >> }
    ELSE { << "error", "Bad module type" >> }

\* fromDescriptor up to the allocation of the variant
Select ==
    /\ pc = "start"
    /\ LET typeString == toString(Value(moduleDescriptor, "type"))
           intfString == toString(Value(moduleDescriptor, "interface"))
           v == SelectVariant(typeString, intfString, withPython, withPythonQt)
       IN  IF typeString = << >> \/ intfString = << >>
           THEN /\ log' = log \cup { << "error", "Bad module descriptor format" >> }
                /\ m' = "null"
                /\ returned' = "nullptr"
                /\ pc' = "done"
           ELSE IF v = "null"
           THEN /\ log' = log
                      \cup SelectionErrors(typeString, intfString,
                                           withPython, withPythonQt)
                      \cup { << "error", "Bad module type or interface string" >> }
                /\ m' = "null"
                /\ returned' = "nullptr"
                /\ pc' = "done"
           ELSE /\ log' = log
                /\ m' = v
                /\ returned' = returned
                /\ pc' = "selected"
    /\ UNCHANGED << inputs, m_name, m_instanceId, m_directory,
                    m_configurationMap, m_emergency, m_maybe_emergency,
                    m_loaded, configFilesByPriority, consulted, opened,
                    cfgWrites, emWrites, key >>

\* fromDescriptor: the module directory and the instance id
CheckDirectory ==
    /\ pc = "selected"
    /\ IF moduleDirectory.ok
       THEN /\ m_directory' = absolutePath(moduleDirectory.path)
            /\ m_instanceId' = instanceId
            /\ pc' = "located"
            /\ UNCHANGED << m, returned, log >>
       ELSE /\ log' = log \cup { << "error", "Bad module directory" >> }
            /\ m' = "null"
            /\ returned' = "nullptr"
            /\ pc' = "done"
            /\ UNCHANGED << m_directory, m_instanceId >>
    /\ UNCHANGED << inputs, m_name, m_configurationMap, m_emergency,
                    m_maybe_emergency, m_loaded, configFilesByPriority,
                    consulted, opened, cfgWrites, emWrites, key >>

----------------------------------------------------------------------------
(* Module::initFrom *)

initFromSetsEmergency ==
    /\ pc = "located"
    /\ m_name' = toString(Value(moduleDescriptor, "name"))
    /\ m_maybe_emergency' =
           IF Contains(moduleDescriptor, EMERGENCY)
           THEN toBool(moduleDescriptor[EMERGENCY])
           ELSE m_maybe_emergency
    /\ m_emergency' = m_maybe_emergency'
    /\ emWrites' = emWrites + 1
    /\ pc' = "inited"
    /\ UNCHANGED << inputs, m, m_instanceId, m_directory, m_configurationMap,
                    m_loaded, returned, configFilesByPriority,
                    consulted, opened, log, cfgWrites, key >>

initFrom ==
    /\ pc = "located"
    /\ m_name' = toString(Value(moduleDescriptor, "name"))
    /\ m_maybe_emergency' =
           IF Contains(moduleDescriptor, EMERGENCY)
           THEN toBool(moduleDescriptor[EMERGENCY])
           ELSE m_maybe_emergency
    /\ pc' = "inited"
    /\ UNCHANGED << inputs, m, m_instanceId, m_directory, m_configurationMap,
                    m_emergency, m_loaded, returned, configFilesByPriority,
                    consulted, opened, log, cfgWrites, emWrites, key >>

----------------------------------------------------------------------------
(* Module::loadConfigurationFile *)

CandidateFilesOverrideAppends(name, fileName, ovr, dbg) ==
    (IF ovr
     THEN << absoluteFilePath(appDataDir(ovr),
                              Arg(<< "modules/", "%", "1" >>, fileName)) >>
     ELSE << >>)
    \o (IF dbg
        THEN << absoluteFilePath(currentPath,
                    Arg(Arg(<< "src/modules/", "%", "1", "/", "%", "2" >>,
                            name), fileName)) >>
        ELSE << >>)
    \o << Arg(<< "/etc/calamares/modules/", "%", "1" >>, fileName),
          absoluteFilePath(appDataDir(ovr),
                           Arg(<< "modules/", "%", "2" >>, fileName)) >>

\* The list configFilesByPriority as the function builds it
CandidateFiles(name, fileName, ovr, dbg) ==
    IF ovr
    THEN << absoluteFilePath(appDataDir(ovr),
                             Arg(<< "modules/", "%", "1" >>, fileName)) >>
    ELSE (IF dbg
          THEN << absoluteFilePath(currentPath,
                      Arg(Arg(<< "src/modules/", "%", "1", "/", "%", "2" >>,
                              name), fileName)) >>
          ELSE << >>)
         \o << Arg(<< "/etc/calamares/modules/", "%", "1" >>, fileName),
               absoluteFilePath(appDataDir(ovr),
                                Arg(<< "modules/", "%", "2" >>, fileName)) >>

DocOutcomeSyntaxIgnored(doc) ==
    CASE doc.type \in { "Invalid", "Null" } -> "empty"
      [] doc.type # "Map" -> "badformat"
      [] OTHER -> "map"

DocOutcomeShapeThrows(doc) ==
    CASE doc.type = "Invalid" -> "throw"
      [] doc.type = "Null" -> "empty"
      [] doc.type # "Map" -> "throw"
      [] OTHER -> "map"

\* What the body of the loop does with the document YAML::Load returns:
\* the parser throws, or the IsNull / !IsMap / map branch is taken
DocOutcome(doc) ==
    CASE doc.type = "Invalid" -> "throw"
      [] doc.type = "Null" -> "empty"
      [] doc.type # "Map" -> "badformat"
      [] OTHER -> "map"

NoCandidateIsError(paths) ==
    [outcome |-> "throw", doc |-> Node("Null", EmptyMap),
     tried |-> paths, read |-> << >>]

\* The loop ran over every candidate and none was usable
NoCandidate(paths) ==
    [outcome |-> "none", doc |-> Node("Null", EmptyMap),
     tried |-> paths, read |-> << >>]

RECURSIVE ResolveSkippingEmpty(_, _)
ResolveSkippingEmpty(paths, i) ==
    IF i > Len(paths) THEN NoCandidate(paths)
    ELSE LET file == FileAt(paths[i])
         IN  IF Usable(file) /\ file.doc.type # "Null"
             THEN [outcome |-> DocOutcome(file.doc), doc |-> file.doc,
                   tried |-> SubSeq(paths, 1, i), read |-> << paths[i] >>]
             ELSE ResolveSkippingEmpty(paths, i + 1)

RECURSIVE Resolve(_, _)
\* The foreach loop from candidate i on: the first usable file decides
Resolve(paths, i) ==
    IF i > Len(paths) THEN NoCandidate(paths)
    ELSE LET file == FileAt(paths[i])
         IN  IF Usable(file)
             THEN [outcome |-> DocOutcome(file.doc), doc |-> file.doc,
                   tried |-> SubSeq(paths, 1, i), read |-> << paths[i] >>]
             ELSE Resolve(paths, i + 1)

EmergencyFromConfigAlone(maybe, map) ==
    Contains(map, EMERGENCY) /\ toBool(map[EMERGENCY])

\* The value assigned to m_emergency
Emergency(maybe, map) ==
    maybe /\ Contains(map, EMERGENCY) /\ toBool(map[EMERGENCY])

loadConfigurationFile ==
    /\ pc = "inited"
    /\ LET list == CandidateFiles(m_name, configFileName, overridden, debugMode)
           r == Resolve(list, 1)
       IN  /\ configFilesByPriority' = list
           /\ consulted' = r.tried
           /\ opened' = r.read
           /\ pc' = IF r.outcome = "throw" THEN "thrown" ELSE "loaded"
           /\ log' = IF r.outcome = "badformat"
                     THEN log \cup { << "warning",
                                        "Bad module configuration format" >> }
                     ELSE log
           /\ IF r.outcome = "map"
              THEN /\ m_configurationMap' = yamlMapToVariant(r.doc)
                   /\ m_emergency' = Emergency(m_maybe_emergency,
                                               m_configurationMap')
                   /\ cfgWrites' = cfgWrites + 1
                   /\ emWrites' = emWrites + 1
              ELSE UNCHANGED << m_configurationMap, m_emergency,
                                cfgWrites, emWrites >>
    /\ UNCHANGED << inputs, m, m_name, m_instanceId, m_directory,
                    m_maybe_emergency, m_loaded, returned, key >>

\* fromDescriptor: the catch block, or return m.release()
Return ==
    /\ pc \in { "loaded", "thrown" }
    /\ IF pc = "thrown"
       THEN /\ log' = log \cup { << "error", "YAML parser error" >> }
            /\ m' = "null"
            /\ returned' = "nullptr"
       ELSE /\ returned' = "instance"
            /\ UNCHANGED << m, log >>
    /\ pc' = "done"
    /\ UNCHANGED << inputs, m_name, m_instanceId, m_directory,
                    m_configurationMap, m_emergency, m_maybe_emergency,
                    m_loaded, configFilesByPriority, consulted, opened,
                    cfgWrites, emWrites, key >>

----------------------------------------------------------------------------
(* Module::instanceKey *)

NoKey == << "<not queried>" >>

InstanceKey(name, id) == Arg(Arg(<< "%", "1", "@", "%", "2" >>, name), id)

instanceKey ==
    /\ pc = "done"
    /\ returned = "instance"
    /\ key = NoKey
    /\ key' = InstanceKey(m_name, m_instanceId)
    /\ UNCHANGED << inputs, m, m_name, m_instanceId, m_directory,
                    m_configurationMap, m_emergency, m_maybe_emergency,
                    m_loaded, pc, returned, configFilesByPriority, consulted,
                    opened, log, cfgWrites, emWrites >>

----------------------------------------------------------------------------
(* Explored inputs *)

Chars == { "a", "@", "%", "1", "2" }

RECURSIVE StringsUpTo(_)
StringsUpTo(n) ==
    IF n = 0 THEN { << >> }
    ELSE LET shorter == StringsUpTo(n - 1)
         IN  shorter \cup { Append(s, c) : s \in { t \in shorter : Len(t) = n - 1 },
                                           c \in Chars }

Field(k, v) == IF v = VInvalid THEN EmptyMap ELSE k :> v

Descriptor(type, intf, name, em) ==
    Field("type", type) @@ Field("interface", intf)
        @@ Field("name", name) @@ Field(EMERGENCY, em)

TypeValues ==
    { VInvalid, VString(<< >>) }
    \cup { VString(<< t >>) : t \in { "view", "viewmodule", "job", "View", "JOB",
                                     "bogus" } }

IntfValues ==
    { VInvalid, VString(<< >>) }
    \cup { VString(<< i >>) : i \in { "qtplugin", "pythonqt", "process", "python",
                                     "Process", "bogus" } }

EmergencyValues == { VInvalid, VBool(TRUE), VBool(FALSE) }

\* Values of other types that a descriptor or a configuration may hold
LooseValues ==
    { VBool(TRUE), VBool(FALSE), VInt(0), VInt(1),
      VString(<< "f", "A", "l", "S", "e" >>), VString(<< "F", "A", "L", "S", "E" >>),
      VString(<< "0" >>), VString(<< >>), VString(<< "y", "e", "s" >>) }

ConfigMaps ==
    { "script" :> VString(<< "run" >>),
      (EMERGENCY :> VBool(TRUE)) @@ ("script" :> VString(<< "run" >>)),
      (EMERGENCY :> VBool(FALSE)) @@ ("script" :> VString(<< "run" >>)) }

Files ==
    { Missing, Unreadable }
    \cup { Readable(Node(t, EmptyMap)) : t \in NodeTypes \ { "Map" } }
    \cup { Readable(Node("Map", f)) : f \in ConfigMaps }

ModName == << "welcome" >>

ConfName == << "welcome.conf" >>

ModDir == << "/", "usr", "/", "lib", "/", "calamares", "/", "modules", "/", "welcome" >>

\* The same directory and others, as a caller may spell them
ModuleDirs ==
    { ModDir,
      ModDir \o << "/" >>,
      << "/", "usr", "/", "lib", "/", "..", "/", "lib", "/", "calamares", "/",
         "modules", "/", ".", "/", "/", "welcome" >>,
      << "modules", "/", "welcome" >>,
      << "..", "/", "cwd", "/", "modules" >>,
      << >> }

OverridePath == << "<overrideRoot>", "/", "modules/" >> \o ConfName

DebugPath == << "/", "cwd", "/", "src/modules/" >> \o ModName \o << "/" >> \o ConfName

EtcPath == << "/etc/calamares/modules/" >> \o ConfName

AppDataPath == << "<appDataRoot>", "/", "modules/" >> \o ConfName

Paths == { OverridePath, DebugPath, EtcPath, AppDataPath }

NoFiles == [p \in {} |-> Missing]

\* In-class initial values of the two flags (the class declaration, Module.h)
DefaultEmergency == FALSE

DefaultMaybeEmergency == FALSE

\* The state at the call of fromDescriptor; the Module fields hold what
\* Module::Module() leaves in a fresh object
Start(desc, id, conf, dir, ovr, dbg, py, pyqt, files) ==
    /\ moduleDescriptor = desc
    /\ instanceId = id
    /\ configFileName = conf
    /\ moduleDirectory = dir
    /\ overridden = ovr
    /\ debugMode = dbg
    /\ withPython = py
    /\ withPythonQt = pyqt
    /\ fs = files
    /\ m = "null"
    /\ m_name = << >>
    /\ m_instanceId = << >>
    /\ m_directory = << >>
    /\ m_configurationMap = EmptyMap
    /\ m_emergency = DefaultEmergency
    /\ m_maybe_emergency = DefaultMaybeEmergency
    /\ m_loaded = FALSE
    /\ pc = "start"
    /\ returned = "pending"
    /\ configFilesByPriority = << >>
    /\ consulted = << >>
    /\ opened = << >>
    /\ log = {}
    /\ cfgWrites = 0
    /\ emWrites = 0
    /\ key = NoKey

\* Every descriptor shape, in every build, over two file systems
InitDispatch ==
    \E type \in TypeValues, intf \in IntfValues, em \in { VInvalid, VBool(TRUE) },
       py \in BOOLEAN, pyqt \in BOOLEAN, ok \in BOOLEAN, dir \in ModuleDirs,
       files \in { NoFiles, EtcPath :> Readable(Node("Invalid", EmptyMap)) } :
        Start(Descriptor(type, intf, VString(ModName), em), ModName, ConfName,
              [path |-> dir, ok |-> ok], FALSE, FALSE, py, pyqt, files)

\* Emergency values of every type, in the descriptor and in the configuration
InitLoose ==
    \E em \in LooseValues, conf \in LooseValues :
        Start(Descriptor(VString(<< "job" >>), VString(<< "python" >>),
                         VString(ModName), em),
              << "1" >>, ConfName, [path |-> ModDir, ok |-> TRUE],
              FALSE, FALSE, TRUE, FALSE,
              EtcPath :> Readable(Node("Map", EMERGENCY :> conf)))

\* One valid descriptor over every file system and environment
InitConfig ==
    \E em \in EmergencyValues, ovr \in BOOLEAN, dbg \in BOOLEAN,
       files \in [Paths -> Files] :
        Start(Descriptor(VString(<< "job" >>), VString(<< "process" >>),
                         VString(ModName), em),
              << "1" >>, ConfName, [path |-> ModDir, ok |-> TRUE],
              ovr, dbg, TRUE, FALSE, files)

\* Every short module name and instance id
InitStrings ==
    \E name \in { VInvalid } \cup { VString(s) : s \in StringsUpTo(MaxNameLen) },
       id \in StringsUpTo(MaxIdLen), dbg \in BOOLEAN :
        Start(Descriptor(VString(<< "view" >>), VString(<< "qtplugin" >>),
                         name, VInvalid),
              id, ConfName, [path |-> ModDir, ok |-> TRUE],
              FALSE, dbg, FALSE, FALSE, EtcPath :> Readable(Node("Null", EmptyMap)))

Init == InitDispatch \/ InitLoose \/ InitConfig \/ InitStrings

Next ==
    \/ Select
    \/ CheckDirectory
    \/ initFrom
    \/ loadConfigurationFile
    \/ Return
    \/ instanceKey

Spec == Init /\ [][Next]_vars

----------------------------------------------------------------------------
(* Vocabulary of the properties *)

Built == pc = "done" /\ returned = "instance"

Failed == pc = "done" /\ returned = "nullptr" /\ m = "null"

\* loadConfigurationFile has run in this build (an assigned m_directory is an
\* absolute path, never empty)
LoadRan == pc \in { "loaded", "thrown" } \/ (pc = "done" /\ m_directory # << >>)

DescType == toString(Value(moduleDescriptor, "type"))

DescInterface == toString(Value(moduleDescriptor, "interface"))

\* The table of (type, interface) pairs and their variants, per build
VariantTable ==
    { << << "view" >>, << "qtplugin" >>, "ViewModule" >>,
      << << "viewmodule" >>, << "qtplugin" >>, "ViewModule" >>,
      << << "job" >>, << "qtplugin" >>, "CppJobModule" >>,
      << << "job" >>, << "process" >>, "ProcessJobModule" >> }
    \cup (IF withPythonQt
          THEN { << << "view" >>, << "pythonqt" >>, "PythonQtViewModule" >>,
                 << << "viewmodule" >>, << "pythonqt" >>, "PythonQtViewModule" >> }
          ELSE {})
    \cup (IF withPython
          THEN { << << "job" >>, << "python" >>, "PythonJobModule" >> }
          ELSE {})

ExpectedVariant ==
    LET rows == { r \in VariantTable : r[1] = DescType /\ r[2] = DescInterface }
    IN  IF rows = {} THEN "null" ELSE (CHOOSE r \in rows : TRUE)[3]

\* Index in configFilesByPriority of the first candidate that exists and
\* opens, 0 when there is none
Winner ==
    LET usable == { i \in 1..Len(configFilesByPriority) :
                      /\ FileAt(configFilesByPriority[i]).exists
                      /\ FileAt(configFilesByPriority[i]).openable }
    IN  IF usable = {} THEN 0
        ELSE CHOOSE i \in usable : \A j \in usable : i <= j

WinnerPath == configFilesByPriority[Winner]

WinnerDoc == FileAt(WinnerPath).doc

\* Only the winning candidate was read, and nothing after it was looked at
StoppedAtWinner ==
    /\ opened = << WinnerPath >>
    /\ consulted = SubSeq(configFilesByPriority, 1, Winner)

\* A candidate of lower precedence than the winner holds a non-empty mapping
LaterMappingExists ==
    \E j \in (Winner + 1)..Len(configFilesByPriority) :
        LET f == FileAt(configFilesByPriority[j])
        IN  f.exists /\ f.openable /\ f.doc.type = "Map" /\ DOMAIN f.doc.map # {}

Errors == { e \in log : e[1] = "error" }

Warnings == { e \in log : e[1] = "warning" }

----------------------------------------------------------------------------
(* Properties *)

\* A value that counts as true: the boolean true, a number other than 0, a
\* non-empty string other than "0" and any spelling of "false"
IsTrue(v) ==
    \/ v = VBool(TRUE)
    \/ v.t = "int" /\ v.i # 0
    \/ /\ v.t = "string"
       /\ v.s \notin { << >>, << "0" >> }
       /\ ~(/\ Len(v.s) = 5
            /\ v.s[1] \in { "f", "F" } /\ v.s[2] \in { "a", "A" }
            /\ v.s[3] \in { "l", "L" } /\ v.s[4] \in { "s", "S" }
            /\ v.s[5] \in { "e", "E" })

\* C1: a returned instance has emergency = TRUE exactly when the descriptor's
\* emergency value is true and the resolved configuration map holds the key
\* emergency with a true value; in every other combination it is FALSE.
C1_EmergencyNeedsBoth ==
    Built =>
        (m_emergency <=>
            /\ Contains(moduleDescriptor, EMERGENCY)
            /\ IsTrue(moduleDescriptor[EMERGENCY])
            /\ EMERGENCY \in DOMAIN m_configurationMap
            /\ IsTrue(m_configurationMap[EMERGENCY]))

C1_Witness == Built /\ m_emergency

\* C2: the variant is selected by exact match of (type, interface) in the
\* table; a pair outside the table (empty, missing, differently cased, wrong
\* kind, or a backend compiled out) fails the build with no instance.
C2_ExactPairSelectsVariant ==
    /\ pc \notin { "start", "done" } => m = ExpectedVariant /\ m # "null"
    /\ Built => m = ExpectedVariant /\ m # "null"
    /\ (pc # "start" /\ ExpectedVariant = "null") => Failed
    /\ (pc = "done" /\ returned = "nullptr" /\ ExpectedVariant # "null") =>
           \/ << "error", "Bad module directory" >> \in log
           \/ << "error", "YAML parser error" >> \in log

C2_Witness ==
    /\ Failed
    /\ DescType = << "View" >>
    /\ DescInterface = << "qtplugin" >>
    /\ moduleDirectory.ok

\* C3: when the first candidate that exists and opens holds a document with
\* invalid syntax, the build returns no instance and no later candidate is
\* consulted.
C3_SyntaxErrorAbortsBuild ==
    (Winner # 0 /\ WinnerDoc.type = "Invalid") =>
        /\ pc = "thrown" \/ Failed
        /\ StoppedAtWinner

C3_Witness ==
    /\ Failed
    /\ Winner # 0
    /\ WinnerDoc.type = "Invalid"
    /\ LaterMappingExists
    /\ moduleDirectory.ok

\* C4: with an override root active the only candidate is
\* <overrideRoot>/modules/<configFileName>, in debug mode or not, and when
\* that file does not exist the configuration stays empty.
C4_OverrideSingleCandidate ==
    (overridden /\ LoadRan) =>
        LET only == << "<overrideRoot>", "/", "modules/" >> \o configFileName
        IN  /\ configFilesByPriority = << only >>
            /\ consulted = << only >>
            /\ \A i \in 1..Len(opened) : opened[i] = only
            /\ ~FileAt(only).exists =>
                   /\ opened = << >>
                   /\ m_configurationMap = EmptyMap
                   /\ pc # "thrown"
                   /\ pc = "done" => Built

C4_Witness ==
    /\ overridden
    /\ debugMode
    /\ Built
    /\ ~FileAt(OverridePath).exists
    /\ \A p \in { DebugPath, EtcPath, AppDataPath } :
           Usable(FileAt(p)) /\ FileAt(p).doc.type = "Map"

\* C5: without an override root the candidates are, in this order,
\* <cwd>/src/modules/<moduleName>/<file> (debug mode only),
\* /etc/calamares/modules/<file>, <appDataRoot>/modules/<file>; the first that
\* exists and opens is the one read and nothing after it is consulted.
C5_FallbackOrder ==
    (~overridden /\ LoadRan) =>
        /\ configFilesByPriority =
               (IF debugMode
                THEN << << "/", "cwd", "/", "src/modules/" >> \o m_name
                            \o << "/" >> \o configFileName >>
                ELSE << >>)
               \o << << "/etc/calamares/modules/" >> \o configFileName,
                     << "<appDataRoot>", "/", "modules/" >> \o configFileName >>
        /\ IF Winner = 0
           THEN opened = << >> /\ consulted = configFilesByPriority
           ELSE StoppedAtWinner

\* C6: an empty document at the winning candidate gives an empty
\* configuration map and a successful build; later candidates are not read.
C6_EmptyDocumentWins ==
    (pc = "done" /\ Winner # 0 /\ WinnerDoc.type = "Null") =>
        /\ Built
        /\ m_configurationMap = EmptyMap
        /\ StoppedAtWinner

C6_Witness ==
    /\ Built
    /\ Winner # 0
    /\ WinnerDoc.type = "Null"
    /\ LaterMappingExists

\* C7: a winning document that is a list or a scalar still gives an instance,
\* with an empty configuration map, a warning and no error.
C7_NonMappingIsSoftFailure ==
    (pc = "done" /\ Winner # 0 /\ WinnerDoc.type \in { "Scalar", "Sequence" }) =>
        /\ Built
        /\ m_configurationMap = EmptyMap
        /\ Warnings = { << "warning", "Bad module configuration format" >> }
        /\ Errors = {}

C7_Witness ==
    /\ Built
    /\ Winner # 0
    /\ WinnerDoc.type = "Sequence"
    /\ Warnings # {}

\* C8: a valid (type, interface) pair, a readable module directory and no
\* configuration file at any candidate path give an instance of the selected
\* variant with an empty configuration map and emergency = FALSE.
C8_NoConfigFileSucceeds ==
    (/\ pc = "done"
     /\ ExpectedVariant # "null"
     /\ moduleDirectory.ok
     /\ \A i \in 1..Len(configFilesByPriority) :
            ~FileAt(configFilesByPriority[i]).exists) =>
        /\ Built
        /\ m = ExpectedVariant
        /\ m_configurationMap = EmptyMap
        /\ m_emergency = FALSE
        /\ Errors = {}

C8_Witness ==
    /\ Built
    /\ Len(configFilesByPriority) = 3
    /\ \A i \in 1..Len(configFilesByPriority) :
           ~FileAt(configFilesByPriority[i]).exists
    /\ Contains(moduleDescriptor, EMERGENCY)
    /\ moduleDescriptor[EMERGENCY] = VBool(TRUE)

\* C9: instanceKey() is the module name, "@", the instance id.
C9_KeyIsNameAtId ==
    key # NoKey => key = m_name \o << "@" >> \o m_instanceId

\* C10 as stated: every build that returns an instance has assigned
\* configurationMap and emergency exactly once.
C10_SetExactlyOnce ==
    Built => cfgWrites = 1 /\ emWrites = 1

\* C10 as amended: configurationMap and emergency are assigned together and
\* at most once, exactly once when the winning document is a mapping and not
\* at all otherwise (they keep the empty map and FALSE); name, instanceId,
\* directory and variant of an instance do not change once assigned.
C10_SetAtMostOnce ==
    /\ [](/\ cfgWrites = emWrites
          /\ cfgWrites \in { 0, 1 }
          /\ Built =>
                 /\ cfgWrites = IF Winner # 0 /\ WinnerDoc.type = "Map"
                                THEN 1 ELSE 0
                 /\ cfgWrites = 0 =>
                        m_configurationMap = EmptyMap /\ m_emergency = FALSE)
    /\ [][(pc \in { "inited", "loaded", "done" } /\ returned' # "nullptr") =>
              << m, m_name, m_instanceId, m_directory >>'
                  = << m, m_name, m_instanceId, m_directory >>]_vars

C10_Witness ==
    /\ Built
    /\ cfgWrites = 1
    /\ Winner # 0
    /\ LaterMappingExists

====
